---- MODULE Spec2Model ----
(***************************************************************************)
(* Model of the ACT8600 PMIC regulator driver                              *)
(* (drivers/regulator/act8600-regulator.c).                                *)
(*                                                                         *)
(* Four specifications share the module's variables:                       *)
(*   SpecRanges  the linear range tables and the selector/value lookups    *)
(*   SpecEnable  enable / disable / is_enabled of the 12 outputs           *)
(*   SpecClim    the USB charger current limit, concurrent with VBUS       *)
(*   SpecProbe   act8600_pmic_probe, the match-and-bind initializer        *)
(***************************************************************************)
EXTENDS Integers, Sequences, FiniteSets

VARIABLES
    vcall,      \* the last list_voltage / map_voltage call and its result
    regs,       \* the chip's registers: register name -> byte
    ecall,      \* the last enable / disable / is_enabled call and its result
    ereq,       \* per output: the last state an enable()/disable() call applied
    ncalls,     \* number of enable/disable/is_enabled calls made so far
    scl,        \* act8600_usb_charger_set_current_limit: its frame
    gcl,        \* act8600_usb_charger_get_current_limit: last return value
    vbusReq,    \* the VBUS enable state last applied by enable()/disable()
    dt,         \* the device tree seen by probe
    probe       \* act8600_pmic_probe: its frame and the framework's state

vars == <<vcall, regs, ecall, ereq, ncalls, scl, gcl, vbusReq, dt, probe>>

(***************************************************************************)
(* errno values and C's int                                                *)
(***************************************************************************)
EIO == 5
ENOMEM == 12
EINVAL == 22
INT_MAX == 2147483647

SetMin(S) == CHOOSE x \in S : \A y \in S : x <= y

(***************************************************************************)
(* Linear range tables                                                     *)
(***************************************************************************)
REGULATOR_LINEAR_RANGE(_min_uV, _min_sel, _max_sel, _step_uV) ==
    [min_uV |-> _min_uV, min_sel |-> _min_sel,
     max_sel |-> _max_sel, uV_step |-> _step_uV]

\* mutant: the second range starts one step too low (1175000 instead of 1200000)
act8600_voltage_ranges_low2 ==
    << REGULATOR_LINEAR_RANGE(600000, 0, 23, 25000),
       REGULATOR_LINEAR_RANGE(1175000, 24, 47, 50000),
       REGULATOR_LINEAR_RANGE(2400000, 48, 63, 100000) >>

act8600_voltage_ranges ==
    << REGULATOR_LINEAR_RANGE(600000, 0, 23, 25000),
       REGULATOR_LINEAR_RANGE(1200000, 24, 47, 50000),
       REGULATOR_LINEAR_RANGE(2400000, 48, 63, 100000) >>

act8600_voltage_ranges_reg9 ==
    << REGULATOR_LINEAR_RANGE(1800000, 0, 0, 0) >>

act8600_voltage_ranges_reg10 ==
    << REGULATOR_LINEAR_RANGE(1200000, 0, 0, 0) >>

\* mutant: the third range starts below the end of the second (12400000)
act8600_sudcdc_voltage_ranges_dip ==
    << REGULATOR_LINEAR_RANGE(3000000, 0, 63, 0),
       REGULATOR_LINEAR_RANGE(3000000, 64, 159, 100000),
       REGULATOR_LINEAR_RANGE(12400000, 160, 191, 200000),
       REGULATOR_LINEAR_RANGE(19000000, 191, 255, 400000) >>

act8600_sudcdc_voltage_ranges ==
    << REGULATOR_LINEAR_RANGE(3000000, 0, 63, 0),
       REGULATOR_LINEAR_RANGE(3000000, 64, 159, 100000),
       REGULATOR_LINEAR_RANGE(12600000, 160, 191, 200000),
       REGULATOR_LINEAR_RANGE(19000000, 191, 255, 400000) >>

(***************************************************************************)
(* regulator_list_voltage_linear_range (value_at): the first range, in     *)
(* table order, that contains the selector decides the value.              *)
(***************************************************************************)
RangesWith(ranges, selector) ==
    { i \in 1..Len(ranges) :
        ranges[i].min_sel <= selector /\ selector <= ranges[i].max_sel }

list_voltage(ranges, selector) ==
    IF RangesWith(ranges, selector) = {}
    THEN -EINVAL
    ELSE LET r == ranges[SetMin(RangesWith(ranges, selector))]
         IN  r.min_uV + r.uV_step * (selector - r.min_sel)

(***************************************************************************)
(* regulator_map_voltage_linear_range (selector_for): the first range that *)
(* overlaps [min_uV, max_uV] is used; min_uV is raised to the range's      *)
(* minimum; a zero step gives the range's first selector, otherwise the    *)
(* offset is rounded up to the next step.  The selected value has to lie   *)
(* within the request.                                                     *)
(***************************************************************************)
DIV_ROUND_UP(n, d) == (n + d - 1) \div d

linear_max_uV(r) == r.min_uV + (r.max_sel - r.min_sel) * r.uV_step

RangesFor(ranges, min_uV, max_uV) ==
    { i \in 1..Len(ranges) :
        min_uV <= linear_max_uV(ranges[i]) /\ max_uV >= ranges[i].min_uV }

map_voltage(ranges, min_uV, max_uV) ==
    IF RangesFor(ranges, min_uV, max_uV) = {}
    THEN -EINVAL
    ELSE LET r   == ranges[SetMin(RangesFor(ranges, min_uV, max_uV))]
             lo  == IF min_uV <= r.min_uV THEN r.min_uV ELSE min_uV
             sel == IF r.uV_step = 0
                    THEN r.min_sel
                    ELSE DIV_ROUND_UP(lo - r.min_uV, r.uV_step) + r.min_sel
             uV  == list_voltage(ranges, sel)
         IN  IF uV < lo \/ uV > max_uV THEN -EINVAL ELSE sel

(***************************************************************************)
(* Register fields of the chip (include/linux/regulator/act8600.h)         *)
(***************************************************************************)
ACT8600_ENA == 128
ACT8600_LDO10_ENA == 64
ACT8600_ONQ1 == 128
ACT8600_DBILIMQ3 == 2
ACT8600_SUSCHG == 128

RegNames ==
    { "DCDC1_CTRL", "DCDC2_CTRL", "DCDC3_CTRL", "SUDCDC4_CTRL",
      "LDO5_CTRL", "LDO6_CTRL", "LDO7_CTRL", "LDO8_CTRL",
      "LDO910_CTRL", "OTG0", "APCH0" }

\* regmap_config: val_bits = 8
val_bits == 8
Bytes == 0..(2^val_bits - 1)

(***************************************************************************)
(* The output descriptors, in array order (ids 1..12 here, 0..11 in C)     *)
(***************************************************************************)
Desc(_name, _ops, _ranges, _enable_reg, _enable_mask, _inverted) ==
    [name |-> _name, ops |-> _ops, linear_ranges |-> _ranges,
     enable_reg |-> _enable_reg, enable_mask |-> _enable_mask,
     enable_is_inverted |-> _inverted]

\* mutant: the USB charger's enable bit taken as active-high
act8600_reg_noinv ==
    << Desc("DCDC_REG1", "act8600_ops", act8600_voltage_ranges, "DCDC1_CTRL", ACT8600_ENA, FALSE),
       Desc("DCDC_REG2", "act8600_ops", act8600_voltage_ranges, "DCDC2_CTRL", ACT8600_ENA, FALSE),
       Desc("DCDC_REG3", "act8600_ops", act8600_voltage_ranges, "DCDC3_CTRL", ACT8600_ENA, FALSE),
       Desc("SUDCDC_REG4", "act8600_ops", act8600_sudcdc_voltage_ranges, "SUDCDC4_CTRL", ACT8600_ENA, FALSE),
       Desc("LDO_REG5", "act8600_ops", act8600_voltage_ranges, "LDO5_CTRL", ACT8600_ENA, FALSE),
       Desc("LDO_REG6", "act8600_ops", act8600_voltage_ranges, "LDO6_CTRL", ACT8600_ENA, FALSE),
       Desc("LDO_REG7", "act8600_ops", act8600_voltage_ranges, "LDO7_CTRL", ACT8600_ENA, FALSE),
       Desc("LDO_REG8", "act8600_ops", act8600_voltage_ranges, "LDO8_CTRL", ACT8600_ENA, FALSE),
       Desc("LDO_REG9", "act8600_ops", act8600_voltage_ranges_reg9, "LDO910_CTRL", ACT8600_ENA, FALSE),
       Desc("LDO_REG10", "act8600_ops", act8600_voltage_ranges_reg10, "LDO910_CTRL", ACT8600_LDO10_ENA, FALSE),
       Desc("VBUS", "act8600_vbus_ops", << >>, "OTG0", ACT8600_ONQ1, FALSE),
       Desc("USB_CHARGER", "act8600_usb_charger_ops", << >>, "APCH0", ACT8600_SUSCHG, FALSE) >>

act8600_reg ==
    << Desc("DCDC_REG1", "act8600_ops", act8600_voltage_ranges, "DCDC1_CTRL", ACT8600_ENA, FALSE),
       Desc("DCDC_REG2", "act8600_ops", act8600_voltage_ranges, "DCDC2_CTRL", ACT8600_ENA, FALSE),
       Desc("DCDC_REG3", "act8600_ops", act8600_voltage_ranges, "DCDC3_CTRL", ACT8600_ENA, FALSE),
       Desc("SUDCDC_REG4", "act8600_ops", act8600_sudcdc_voltage_ranges, "SUDCDC4_CTRL", ACT8600_ENA, FALSE),
       Desc("LDO_REG5", "act8600_ops", act8600_voltage_ranges, "LDO5_CTRL", ACT8600_ENA, FALSE),
       Desc("LDO_REG6", "act8600_ops", act8600_voltage_ranges, "LDO6_CTRL", ACT8600_ENA, FALSE),
       Desc("LDO_REG7", "act8600_ops", act8600_voltage_ranges, "LDO7_CTRL", ACT8600_ENA, FALSE),
       Desc("LDO_REG8", "act8600_ops", act8600_voltage_ranges, "LDO8_CTRL", ACT8600_ENA, FALSE),
       Desc("LDO_REG9", "act8600_ops", act8600_voltage_ranges_reg9, "LDO910_CTRL", ACT8600_ENA, FALSE),
       Desc("LDO_REG10", "act8600_ops", act8600_voltage_ranges_reg10, "LDO910_CTRL", ACT8600_LDO10_ENA, FALSE),
       Desc("VBUS", "act8600_vbus_ops", << >>, "OTG0", ACT8600_ONQ1, FALSE),
       Desc("USB_CHARGER", "act8600_usb_charger_ops", << >>, "APCH0", ACT8600_SUSCHG, TRUE) >>

ACT8600_REG_NUM == Len(act8600_reg)
Ids == 1..ACT8600_REG_NUM
ID_VBUS == 11
ID_USB_CHARGER == 12

\* the outputs whose ops table has list_voltage / map_voltage
VoltageIds == { i \in Ids : act8600_reg[i].ops = "act8600_ops" }

(***************************************************************************)
(* SpecRanges: list_voltage and map_voltage called on the voltage outputs  *)
(***************************************************************************)
\* no selector: the call was not made on a listed value
NoSel == -EINVAL

\* the selector span of a table, and one selector beyond it
Selectors(ranges) ==
    ranges[1].min_sel .. (ranges[Len(ranges)].max_sel + 1)

\* requested voltages: every table value, and values next to and between them
Offsets == { -12500, -1, 0, 1, 12500 }
Targets(ranges) ==
    { list_voltage(ranges, s) + d :
        s \in ranges[1].min_sel .. ranges[Len(ranges)].max_sel, d \in Offsets }

NoCall == [op |-> "none", id |-> 0, sel |-> NoSel, min_uV |-> 0, max_uV |-> 0, ret |-> 0]

OthersIdle ==
    /\ regs = [r \in RegNames |-> 0]
    /\ ecall = [op |-> "none", id |-> 0, ret |-> 0]
    /\ ereq = [i \in Ids |-> "none"]
    /\ ncalls = 0
    /\ scl = [pc |-> "idle", min_uA |-> 0, max_uA |-> 0, data |-> 0, ret |-> 0, rd |-> "none", wrote |-> FALSE]
    /\ gcl = [called |-> FALSE, ret |-> 0]
    /\ vbusReq = "none"
    /\ dt = [regulators |-> FALSE, names |-> {}]
    /\ probe = [pc |-> "unbound"]

InitRanges ==
    /\ vcall = NoCall
    /\ OthersIdle

\* ops->list_voltage(rdev, selector)
ListVoltage(id, selector) ==
    /\ vcall.op = "none"
    /\ vcall' = [op |-> "list_voltage", id |-> id, sel |-> selector,
                 min_uV |-> 0, max_uV |-> 0,
                 ret |-> list_voltage(act8600_reg[id].linear_ranges, selector)]
    /\ UNCHANGED <<regs, ecall, ereq, ncalls, scl, gcl, vbusReq, dt, probe>>

\* ops->map_voltage(rdev, min_uV, max_uV) for a requested voltage
MapVoltage(id, min_uV, max_uV) ==
    /\ vcall.op = "none"
    /\ vcall' = [op |-> "map_voltage", id |-> id, sel |-> NoSel,
                 min_uV |-> min_uV, max_uV |-> max_uV,
                 ret |-> map_voltage(act8600_reg[id].linear_ranges, min_uV, max_uV)]
    /\ UNCHANGED <<regs, ecall, ereq, ncalls, scl, gcl, vbusReq, dt, probe>>

\* ops->map_voltage on the value list_voltage has just returned for vcall.sel
MapListed(max_uV) ==
    /\ vcall.op = "list_voltage"
    /\ vcall.ret >= 0
    /\ vcall' = [op |-> "map_voltage", id |-> vcall.id, sel |-> vcall.sel,
                 min_uV |-> vcall.ret, max_uV |-> max_uV,
                 ret |-> map_voltage(act8600_reg[vcall.id].linear_ranges,
                                     vcall.ret, max_uV)]
    /\ UNCHANGED <<regs, ecall, ereq, ncalls, scl, gcl, vbusReq, dt, probe>>

NextRanges ==
    \/ \E id \in VoltageIds :
         \E s \in Selectors(act8600_reg[id].linear_ranges) : ListVoltage(id, s)
    \/ \E id \in VoltageIds :
         \E t \in Targets(act8600_reg[id].linear_ranges) :
           \E mx \in {t, INT_MAX} : MapVoltage(id, t, mx)
    \/ \E mx \in {vcall.ret, INT_MAX} : MapListed(mx)

SpecRanges == InitRanges /\ [][NextRanges]_vars

\* the table of the output of the last voltage call
CallRanges == act8600_reg[vcall.id].linear_ranges

\* map_voltage was applied to the value list_voltage gave for vcall.sel
RoundTripDone ==
    /\ vcall.op = "map_voltage"
    /\ vcall.sel # NoSel

\* the ranges of the table with a zero step whose single value is uV
FixedRangesAt(ranges, uV) ==
    { i \in 1..Len(ranges) : ranges[i].uV_step = 0 /\ ranges[i].min_uV = uV }

\* the step of the range that decides the value of selector s
StepOf(ranges, s) == ranges[SetMin(RangesWith(ranges, s))].uV_step

\* C6 (as stated): for every table and every selector s lying in a range with
\* a non-zero step, selector_for(value_at(s)) = s, selector 64 and 191 of the
\* SUDCDC table included.
C6_RoundTripNonZeroStep ==
    (RoundTripDone /\ StepOf(CallRanges, vcall.sel) # 0) => vcall.ret = vcall.sel

\* C6 (amended): selector_for(value_at(s)) = s for every selector s whose value
\* is not the value of a zero-step range of the table; a selector whose value
\* is the value of a zero-step range resolves to that range's first selector.
\* The only such selector outside a zero-step range is selector 64 of the
\* SUDCDC table, which resolves to 0.
C6_RoundTripAmended ==
    RoundTripDone =>
      /\ IF FixedRangesAt(CallRanges, vcall.min_uV) = {}
         THEN vcall.ret = vcall.sel
         ELSE vcall.ret =
                CallRanges[SetMin(FixedRangesAt(CallRanges, vcall.min_uV))].min_sel
      /\ (StepOf(CallRanges, vcall.sel) # 0 /\ vcall.ret # vcall.sel)
           => (act8600_reg[vcall.id].name = "SUDCDC_REG4"
                 /\ vcall.sel = 64 /\ vcall.ret = 0)

\* C6 witness: the round trip of the overlapping SUDCDC selector 191
C6_Witness ==
    /\ RoundTripDone
    /\ act8600_reg[vcall.id].name = "SUDCDC_REG4"
    /\ vcall.sel = 191
    /\ vcall.min_uV = 18800000
    /\ vcall.ret = 191

\* the selectors of the 3-range table whose value is at least uV
AtLeast(uV) == { s \in 0..63 : list_voltage(CallRanges, s) >= uV }

\* C7: on an output using the 3-range table, map_voltage of a target with no
\* upper limit returns the smallest selector whose value is >= target for
\* every target in [600000, 3900000], fails with -EINVAL when no selector's
\* value is >= target, resolves a target between 1175000 and 1200000 to 24,
\* 1250000 to 25 and 700000 to 4.
C7_SmallestSelectorAtLeast ==
    ( /\ vcall.op = "map_voltage"
      /\ vcall.max_uV = INT_MAX
      /\ Len(CallRanges) = 3 )
    => /\ (vcall.min_uV >= 600000 /\ vcall.min_uV <= 3900000)
            => (AtLeast(vcall.min_uV) # {}
                  /\ vcall.ret = SetMin(AtLeast(vcall.min_uV)))
       /\ vcall.min_uV > 3900000 => vcall.ret = -EINVAL
       /\ (vcall.min_uV > 1175000 /\ vcall.min_uV <= 1200000) => vcall.ret = 24
       /\ vcall.min_uV = 1250000 => vcall.ret = 25
       /\ vcall.min_uV = 700000 => vcall.ret = 4

\* C7 witness: a target strictly between two ranges was rounded up to 24
C7_Witness ==
    /\ vcall.op = "map_voltage"
    /\ act8600_reg[vcall.id].name = "DCDC_REG1"
    /\ vcall.max_uV = INT_MAX
    /\ vcall.min_uV = 1187500
    /\ vcall.ret = 24

\* C9: list_voltage is non-decreasing in the selector over the whole span of
\* every table: 0..63 for the 3-range table, 0..255 for the SUDCDC table.
C9_ListVoltageMonotonic ==
    (vcall.op = "list_voltage" /\ vcall.ret >= 0)
    => \A s1 \in CallRanges[1].min_sel .. vcall.sel :
         /\ list_voltage(CallRanges, s1) >= 0
         /\ list_voltage(CallRanges, s1) <= vcall.ret

\* C9 witness: the selector after the overlapping boundary of the SUDCDC table
C9_Witness ==
    /\ vcall.op = "list_voltage"
    /\ act8600_reg[vcall.id].name = "SUDCDC_REG4"
    /\ vcall.sel = 192
    /\ vcall.ret = 19400000

(***************************************************************************)
(* Register map adapter (regmap): bit operations on bytes                  *)
(***************************************************************************)
RECURSIVE BitAnd(_, _)
BitAnd(x, y) ==
    IF x = 0 \/ y = 0 THEN 0
    ELSE (x % 2) * (y % 2) + 2 * BitAnd(x \div 2, y \div 2)

BitNot(x) == (2^val_bits - 1) - x
BitOr(x, y) == x + y - BitAnd(x, y)

\* regmap_update_bits: read-modify-write that keeps the bits outside mask
update_bits(old, mask, val) == BitOr(BitAnd(old, BitNot(mask)), BitAnd(val, mask))

\* the value regulator_enable_regmap writes into the enable field
enable_field(desc) ==
    IF desc.enable_is_inverted THEN 0 ELSE desc.enable_mask

\* the value regulator_disable_regmap writes into the enable field
disable_field(desc) ==
    IF desc.enable_is_inverted THEN desc.enable_mask ELSE 0

\* regulator_is_enabled_regmap on a register value that was read
is_enabled(desc, val) ==
    IF desc.enable_is_inverted
    THEN BitAnd(val, desc.enable_mask) = 0
    ELSE BitAnd(val, desc.enable_mask) # 0

(***************************************************************************)
(* SpecEnable: enable(), disable() and is_enabled() of the 12 outputs.     *)
(* Every call is one regmap transaction, which the transport may fail.     *)
(***************************************************************************)
MaxCalls == 2
InitBytes == { 0, 2^val_bits - 1 }

InitEnable ==
    /\ \E b \in InitBytes : regs = [r \in RegNames |-> b]
    /\ ecall = [op |-> "none", id |-> 0, ret |-> 0]
    /\ ereq = [i \in Ids |-> "none"]
    /\ ncalls = 0
    /\ vcall = NoCall
    /\ scl = [pc |-> "idle", min_uA |-> 0, max_uA |-> 0, data |-> 0, ret |-> 0, rd |-> "none", wrote |-> FALSE]
    /\ gcl = [called |-> FALSE, ret |-> 0]
    /\ vbusReq = "none"
    /\ dt = [regulators |-> FALSE, names |-> {}]
    /\ probe = [pc |-> "unbound"]

\* ops->enable = regulator_enable_regmap
Enable(id, ok) ==
    /\ ncalls < MaxCalls
    /\ ncalls' = ncalls + 1
    /\ IF ok
       THEN /\ regs' = [regs EXCEPT ![act8600_reg[id].enable_reg] =
                          update_bits(@, act8600_reg[id].enable_mask,
                                      enable_field(act8600_reg[id]))]
            /\ ereq' = [ereq EXCEPT ![id] = "on"]
            /\ ecall' = [op |-> "enable", id |-> id, ret |-> 0]
       ELSE /\ ecall' = [op |-> "enable", id |-> id, ret |-> -EIO]
            /\ UNCHANGED <<regs, ereq>>
    /\ UNCHANGED <<vcall, scl, gcl, vbusReq, dt, probe>>

\* ops->disable = regulator_disable_regmap
Disable(id, ok) ==
    /\ ncalls < MaxCalls
    /\ ncalls' = ncalls + 1
    /\ IF ok
       THEN /\ regs' = [regs EXCEPT ![act8600_reg[id].enable_reg] =
                          update_bits(@, act8600_reg[id].enable_mask,
                                      disable_field(act8600_reg[id]))]
            /\ ereq' = [ereq EXCEPT ![id] = "off"]
            /\ ecall' = [op |-> "disable", id |-> id, ret |-> 0]
       ELSE /\ ecall' = [op |-> "disable", id |-> id, ret |-> -EIO]
            /\ UNCHANGED <<regs, ereq>>
    /\ UNCHANGED <<vcall, scl, gcl, vbusReq, dt, probe>>

\* ops->is_enabled = regulator_is_enabled_regmap: 1, 0 or the read's error
IsEnabled(id, ok) ==
    /\ ecall' = [op |-> "is_enabled", id |-> id,
                 ret |-> IF ~ok THEN -EIO
                         ELSE IF is_enabled(act8600_reg[id],
                                            regs[act8600_reg[id].enable_reg])
                              THEN 1 ELSE 0]
    /\ UNCHANGED <<regs, ereq, ncalls, vcall, scl, gcl, vbusReq, dt, probe>>

NextEnable ==
    \/ \E id \in Ids : \E ok \in BOOLEAN : Enable(id, ok)
    \/ \E id \in Ids : \E ok \in BOOLEAN : Disable(id, ok)
    \/ \E id \in Ids : \E ok \in BOOLEAN : IsEnabled(id, ok)

SpecEnable == InitEnable /\ [][NextEnable]_vars

\* the enable bit of output id is set in its enable register
EnableBitSet(id) ==
    BitAnd(regs[act8600_reg[id].enable_reg], act8600_reg[id].enable_mask) # 0

\* C8: enable polarity.  Once enable()/disable() has been applied to an
\* output, whatever calls were made on the other outputs since: the USB
\* charger's SUSCHG bit is clear after enable() and set after disable(), each
\* of the other 11 outputs has its enable bit set after enable() and clear
\* after disable(), and is_enabled() returns the state last applied.
C8_EnablePolarity ==
    /\ \A id \in Ids :
         ereq[id] # "none" =>
           /\ EnableBitSet(id) = IF id = ID_USB_CHARGER
                                 THEN ereq[id] = "off"
                                 ELSE ereq[id] = "on"
           /\ is_enabled(act8600_reg[id], regs[act8600_reg[id].enable_reg])
                = (ereq[id] = "on")
    /\ (ecall.op = "is_enabled" /\ ecall.ret >= 0 /\ ereq[ecall.id] # "none")
         => ecall.ret = IF ereq[ecall.id] = "on" THEN 1 ELSE 0
    /\ (ecall.op \in {"enable", "disable"} /\ ecall.ret = 0)
         => ereq[ecall.id] = IF ecall.op = "enable" THEN "on" ELSE "off"

\* C8 witness: the USB charger was enabled from a register with SUSCHG set,
\* and is_enabled() then returned 1 with the bit clear
C8_Witness ==
    /\ ecall = [op |-> "is_enabled", id |-> ID_USB_CHARGER, ret |-> 1]
    /\ ereq[ID_USB_CHARGER] = "on"
    /\ regs["APCH0"] = (2^val_bits - 1) - ACT8600_SUSCHG

(***************************************************************************)
(* Current limit of the USB charger output                                 *)
(***************************************************************************)
\* mutant: zero accepted as a limit
InvalidLimit_zero(max_uA) == max_uA < 0 \/ max_uA > 800000

\* the request is refused with -EINVAL
InvalidLimit(max_uA) == max_uA <= 0 \/ max_uA > 800000

\* mutant: exactly 400000 selects the high setting
NewLimitData_lt(data, max_uA) ==
    IF max_uA < 400000
    THEN BitAnd(data, BitNot(ACT8600_DBILIMQ3))
    ELSE BitOr(data, ACT8600_DBILIMQ3)

\* the byte written back for a valid request, from the byte that was read
NewLimitData(data, max_uA) ==
    IF max_uA <= 400000
    THEN BitAnd(data, BitNot(ACT8600_DBILIMQ3))
    ELSE IF max_uA <= 800000
         THEN BitOr(data, ACT8600_DBILIMQ3)
         ELSE data

\* get_current_limit's result for a byte that was read
LimitOf(data) ==
    IF BitAnd(data, ACT8600_DBILIMQ3) # 0 THEN 800000 ELSE 400000

(***************************************************************************)
(* SpecClim: set_current_limit / get_current_limit of the USB charger      *)
(* (serialized with each other by the charger's regulator lock) running    *)
(* concurrently with enable()/disable() of VBUS, which holds another lock  *)
(* and acts on the same register OTG0.  regmap_read, regmap_write and      *)
(* regmap_update_bits are each atomic under the register map's lock.       *)
(***************************************************************************)
MinUAs == { 0, 900000 }
MaxUAs == { -1, 0, 1, 400000, 400001, 800000, 800001 }

InitClim ==
    /\ \E b \in Bytes : regs = [r \in RegNames |-> IF r = "OTG0" THEN b ELSE 0]
    /\ scl = [pc |-> "idle", min_uA |-> 0, max_uA |-> 0, data |-> 0, ret |-> 0, rd |-> "none", wrote |-> FALSE]
    /\ gcl = [called |-> FALSE, ret |-> 0]
    /\ vbusReq = "none"
    /\ vcall = NoCall
    /\ ecall = [op |-> "none", id |-> 0, ret |-> 0]
    /\ ereq = [i \in Ids |-> "none"]
    /\ ncalls = 0
    /\ dt = [regulators |-> FALSE, names |-> {}]
    /\ probe = [pc |-> "unbound"]

\* a consumer calls set_current_limit(min_uA, max_uA)
SclCall(min_uA, max_uA) ==
    /\ scl.pc \in {"idle", "returned"}
    /\ scl' = [pc |-> "read", min_uA |-> min_uA, max_uA |-> max_uA,
               data |-> 0, ret |-> 0, rd |-> "none", wrote |-> FALSE]
    /\ gcl' = [called |-> FALSE, ret |-> 0]
    /\ UNCHANGED <<regs, vbusReq, vcall, ecall, ereq, ncalls, dt, probe>>

\* regmap_read of OTG0, then the range check and the new byte
SclRead(ok) ==
    /\ scl.pc = "read"
    /\ scl' = IF ~ok
              THEN [scl EXCEPT !.pc = "returned", !.ret = -EIO, !.rd = "failed"]
              ELSE IF InvalidLimit(scl.max_uA)
              THEN [scl EXCEPT !.pc = "returned", !.ret = -EINVAL,
                               !.rd = "ok", !.data = regs["OTG0"]]
              ELSE [scl EXCEPT !.pc = "write", !.rd = "ok",
                               !.data = NewLimitData(regs["OTG0"], scl.max_uA)]
    /\ UNCHANGED <<regs, gcl, vbusReq, vcall, ecall, ereq, ncalls, dt, probe>>

\* regmap_write of the new byte to OTG0
SclWrite(ok) ==
    /\ scl.pc = "write"
    /\ IF ok
       THEN /\ regs' = [regs EXCEPT !["OTG0"] = scl.data]
            /\ scl' = [scl EXCEPT !.pc = "returned", !.ret = 0, !.wrote = TRUE]
       ELSE /\ scl' = [scl EXCEPT !.pc = "returned", !.ret = -EIO]
            /\ UNCHANGED regs
    /\ UNCHANGED <<gcl, vbusReq, vcall, ecall, ereq, ncalls, dt, probe>>

\* get_current_limit: one regmap_read of OTG0
GetCurrentLimit(ok) ==
    /\ scl.pc \in {"idle", "returned"}
    /\ gcl' = [called |-> TRUE, ret |-> IF ok THEN LimitOf(regs["OTG0"]) ELSE -EIO]
    /\ UNCHANGED <<regs, scl, vbusReq, vcall, ecall, ereq, ncalls, dt, probe>>

\* enable() of VBUS: regmap_update_bits on OTG0
VbusEnable(ok) ==
    /\ IF ok
       THEN /\ regs' = [regs EXCEPT !["OTG0"] =
                          update_bits(@, act8600_reg[ID_VBUS].enable_mask,
                                      enable_field(act8600_reg[ID_VBUS]))]
            /\ vbusReq' = "on"
       ELSE UNCHANGED <<regs, vbusReq>>
    /\ UNCHANGED <<scl, gcl, vcall, ecall, ereq, ncalls, dt, probe>>

\* disable() of VBUS: regmap_update_bits on OTG0
VbusDisable(ok) ==
    /\ IF ok
       THEN /\ regs' = [regs EXCEPT !["OTG0"] =
                          update_bits(@, act8600_reg[ID_VBUS].enable_mask,
                                      disable_field(act8600_reg[ID_VBUS]))]
            /\ vbusReq' = "off"
       ELSE UNCHANGED <<regs, vbusReq>>
    /\ UNCHANGED <<scl, gcl, vcall, ecall, ereq, ncalls, dt, probe>>

NextClim ==
    \/ \E mn \in MinUAs : \E mx \in MaxUAs : SclCall(mn, mx)
    \/ \E ok \in BOOLEAN : SclRead(ok)
    \/ \E ok \in BOOLEAN : SclWrite(ok)
    \/ \E ok \in BOOLEAN : GetCurrentLimit(ok)
    \/ \E ok \in BOOLEAN : VbusEnable(ok)
    \/ \E ok \in BOOLEAN : VbusDisable(ok)

SpecClim == InitClim /\ [][NextClim]_vars

\* set_current_limit has returned 0, and get_current_limit has returned a
\* limit since
SetThenGet ==
    /\ scl.pc = "returned"
    /\ scl.ret = 0
    /\ gcl.called
    /\ gcl.ret >= 0

\* C1: for every initial OTG0 and every min_uA, get_current_limit after a
\* successful set_current_limit(min_uA, max_uA) returns 400000 if max_uA is in
\* (0, 400000] and 800000 if max_uA is in (400000, 800000].
C1_SetThenGetLimit ==
    SetThenGet =>
      /\ scl.max_uA > 0
      /\ scl.max_uA <= 800000
      /\ scl.max_uA <= 400000 => gcl.ret = 400000
      /\ scl.max_uA > 400000 => gcl.ret = 800000

\* C1 witness: the boundary request of exactly 400000 read back as 400000
C1_Witness ==
    /\ SetThenGet
    /\ scl.max_uA = 400000
    /\ scl.min_uA = 900000
    /\ gcl.ret = 400000

\* set_current_limit has returned from a request with max_uA out of range
InvalidReturned ==
    /\ scl.pc = "returned"
    /\ (scl.max_uA <= 0 \/ scl.max_uA > 800000)

\* C2 (as stated): a request with max_uA <= 0 or max_uA > 800000 fails with
\* -EINVAL and writes no register.
C2_InvalidFailsEINVAL ==
    InvalidReturned => (scl.ret = -EINVAL /\ ~scl.wrote)

\* C2 (amended): a request with max_uA <= 0 or max_uA > 800000 fails and
\* writes no register; the error is -EINVAL when the read of OTG0 that
\* precedes the range check succeeded, else the error of that read.
C2_InvalidFailsNoWrite ==
    InvalidReturned =>
      /\ ~scl.wrote
      /\ scl.rd = "ok" => scl.ret = -EINVAL
      /\ scl.rd = "failed" => scl.ret = -EIO
      /\ scl.rd \in {"ok", "failed"}

\* C2 witness: max_uA = 0 was refused with -EINVAL after a successful read
C2_Witness ==
    /\ InvalidReturned
    /\ scl.max_uA = 0
    /\ scl.rd = "ok"
    /\ scl.ret = -EINVAL
    /\ ~scl.wrote

\* C10: no update of OTG0 is lost.  Once set_current_limit has returned 0
\* and enable()/disable() of VBUS has been applied, OTG0 holds the requested
\* current-limit bit and the VBUS enable bit last applied.
C10_NoLostUpdate ==
    (scl.pc = "returned" /\ scl.ret = 0 /\ vbusReq # "none") =>
      /\ LimitOf(regs["OTG0"]) = IF scl.max_uA <= 400000 THEN 400000 ELSE 800000
      /\ (BitAnd(regs["OTG0"], ACT8600_ONQ1) # 0) = (vbusReq = "on")

(***************************************************************************)
(* SpecProbe: act8600_pmic_probe, then the driver core's handling of its   *)
(* return value (a failed probe has its device-managed resources released) *)
(***************************************************************************)
\* mutant: the register map is set up before the configuration is looked at
ProbeSteps_regmap_first ==
    << "regmap_init", "get_node", "match", "alloc_regulators",
       "alloc_act8600", "register", "set_clientdata" >>

\* the steps of act8600_pmic_probe, in the order of the code
ProbeSteps ==
    << "get_node", "match", "alloc_regulators", "alloc_act8600",
       "regmap_init", "register", "set_clientdata" >>

StepAfter(step) ==
    LET k == CHOOSE j \in 1..Len(ProbeSteps) : ProbeSteps[j] = step
    IN  IF k = Len(ProbeSteps) THEN "returned" ELSE ProbeSteps[k + 1]

\* of_regulator_match: the number of table names found in the subtree
of_regulator_match(names) == Cardinality(names)

ProbeStart ==
    [pc |-> ProbeSteps[1], ret |-> 0, matched |-> 0, init_data |-> {},
     i |-> 0, registered |-> << >>, failed_name |-> "", did |-> {}]

InitProbe ==
    /\ dt \in { [regulators |-> FALSE, names |-> {}] }
              \cup { [regulators |-> TRUE, names |-> S] : S \in SUBSET Ids }
    /\ probe = ProbeStart
    /\ vcall = NoCall
    /\ regs = [r \in RegNames |-> 0]
    /\ ecall = [op |-> "none", id |-> 0, ret |-> 0]
    /\ ereq = [i \in Ids |-> "none"]
    /\ ncalls = 0
    /\ scl = [pc |-> "idle", min_uA |-> 0, max_uA |-> 0, data |-> 0, ret |-> 0, rd |-> "none", wrote |-> FALSE]
    /\ gcl = [called |-> FALSE, ret |-> 0]
    /\ vbusReq = "none"

NotProbe == <<vcall, regs, ecall, ereq, ncalls, scl, gcl, vbusReq, dt>>

Return(err) == [probe EXCEPT !.pc = "returned", !.ret = err]
Advance == [probe EXCEPT !.pc = StepAfter(probe.pc)]

\* np = of_get_child_by_name(dev->of_node, "regulators"); if (!np) return -EINVAL
GetNode ==
    /\ probe.pc = "get_node"
    /\ probe' = IF ~dt.regulators THEN Return(-EINVAL) ELSE Advance
    /\ UNCHANGED NotProbe

\* matched = of_regulator_match(...); if (matched <= 0) return matched
Match(ok) ==
    /\ probe.pc = "match"
    /\ LET matched == IF ok /\ dt.regulators
                      THEN of_regulator_match(dt.names) ELSE -EINVAL
       IN  probe' = IF matched <= 0
                    THEN [Return(matched) EXCEPT !.matched = matched]
                    ELSE [Advance EXCEPT !.matched = matched]
    /\ UNCHANGED NotProbe

\* regulators = devm_kzalloc(...); the copy of the match table; the count check
AllocRegulators(ok) ==
    /\ probe.pc = "alloc_regulators"
    /\ probe' = IF ~ok THEN Return(-ENOMEM)
                ELSE IF probe.matched > ACT8600_REG_NUM
                THEN [Return(-EINVAL) EXCEPT !.init_data = dt.names]
                ELSE [Advance EXCEPT !.init_data = dt.names]
    /\ UNCHANGED NotProbe

\* act8600 = devm_kzalloc(...)
AllocAct8600(ok) ==
    /\ probe.pc = "alloc_act8600"
    /\ probe' = IF ~ok THEN Return(-ENOMEM) ELSE Advance
    /\ UNCHANGED NotProbe

\* act8600->regmap = devm_regmap_init_i2c(...)
RegmapInit(ok) ==
    /\ probe.pc = "regmap_init"
    /\ probe' = IF ~ok THEN Return(-ENOMEM)
                ELSE [Advance EXCEPT !.did = @ \cup {"regmap"}]
    /\ UNCHANGED NotProbe

\* one turn of the registration loop: devm_regulator_register of act8600_reg[i].
\* The framework applies the constraints of an output that has init_data,
\* which accesses the chip's registers.
Register(ok) ==
    /\ probe.pc = "register"
    /\ probe.i < ACT8600_REG_NUM
    /\ LET id == probe.i + 1
           touched == probe.did \cup {"register"}
                        \cup (IF id \in probe.init_data THEN {"io"} ELSE {})
       IN  probe' =
             IF ~ok
             THEN [Return(-EINVAL) EXCEPT !.failed_name = act8600_reg[id].name,
                                          !.did = touched]
             ELSE [probe EXCEPT
                     !.registered = Append(@, [name |-> act8600_reg[id].name,
                                               init_data |-> id \in probe.init_data]),
                     !.i = id,
                     !.did = touched,
                     !.pc = IF id = ACT8600_REG_NUM
                            THEN StepAfter(probe.pc) ELSE probe.pc]
    /\ UNCHANGED NotProbe

\* i2c_set_clientdata(client, act8600); return 0
SetClientdata ==
    /\ probe.pc = "set_clientdata"
    /\ probe' = [Advance EXCEPT !.ret = 0]
    /\ UNCHANGED NotProbe

\* the driver core: success binds the device, an error releases everything
\* that probe registered with the device
DriverCore ==
    /\ probe.pc = "returned"
    /\ probe' = IF probe.ret = 0
                THEN [probe EXCEPT !.pc = "bound"]
                ELSE [probe EXCEPT !.pc = "failed", !.registered = << >>]
    /\ UNCHANGED NotProbe

NextProbe ==
    \/ GetNode
    \/ \E ok \in BOOLEAN : Match(ok)
    \/ \E ok \in BOOLEAN : AllocRegulators(ok)
    \/ \E ok \in BOOLEAN : AllocAct8600(ok)
    \/ \E ok \in BOOLEAN : RegmapInit(ok)
    \/ \E ok \in BOOLEAN : Register(ok)
    \/ SetClientdata
    \/ DriverCore

SpecProbe == InitProbe /\ [][NextProbe]_vars

\* the 12 outputs, registered in descriptor order, each with the
\* configuration entry its name matched (none if unmatched)
AllRegistered ==
    /\ Len(probe.registered) = ACT8600_REG_NUM
    /\ \A k \in Ids :
         probe.registered[k] = [name |-> act8600_reg[k].name,
                                init_data |-> k \in dt.names]

\* C3: when the 'regulators' subtree exists and no step fails, probe
\* registers exactly the 12 outputs in descriptor order for every set of
\* matched names: all 12, a proper subset or none.
C3_AllRegisteredOnSuccess ==
    (probe.pc = "bound" /\ dt.regulators) => AllRegistered

\* C4: no partial success.  When probe is over, either it returned 0 and all
\* 12 outputs are registered, or it returned an error and none is; a failed
\* registration of output k stops the loop at k and reports the name of k.
C4_AllOrNothing ==
    /\ probe.pc \in {"bound", "failed"} =>
         \/ (probe.ret = 0 /\ AllRegistered)
         \/ (probe.ret < 0 /\ probe.registered = << >>)
    /\ (probe.pc \in {"returned", "failed"} /\ probe.failed_name # "") =>
         /\ probe.i < ACT8600_REG_NUM
         /\ probe.failed_name = act8600_reg[probe.i + 1].name

\* C5: with no 'regulators' subnode probe returns -EINVAL, and nothing was
\* done before: no register map, no registration, no register access.
C5_NoNodeFailsFirst ==
    (probe.pc \in {"returned", "bound", "failed"} /\ ~dt.regulators) =>
      /\ probe.ret = -EINVAL
      /\ probe.did = {}
      /\ probe.registered = << >>
      /\ probe.i = 0

\* C5 witness: probe of a device without the subnode is over
C5_Witness ==
    /\ ~dt.regulators
    /\ probe.pc = "failed"
    /\ probe.ret = -EINVAL
    /\ probe.did = {}

====
